---- MODULE Spec2Model ----
(***************************************************************************)
(* A model of two parts of snuba:                                          *)
(*   - snuba/query/parser/conditions.py: parse_conditions and the builder  *)
(*     set of parse_conditions_to_expr (specification Spec);               *)
(*   - snuba/pipeline/simple_pipeline.py: SimplePipeline (specification    *)
(*     PipelineSpec).                                                      *)
(***************************************************************************)
EXTENDS Integers, Sequences, FiniteSets, TLC

VARIABLES
    \* ---- condition compiler (parse_conditions) ----
    conditions,   \* the raw condition structure handed to parse_conditions
    array_join,   \* the active array join column, or None
    depth,        \* the depth argument of the outermost call
    pc,           \* "ready" before the call, "done" after it
    ret,          \* outcome of the call (see Outcome below)
    \* ---- query pipeline (SimplePipeline) ----
    stage,        \* position of the execute call on the pipeline instance
    request,      \* self.__request: the marks processors left on it, in order
    plans,        \* heap of ClickhouseQueryPlan objects built so far
    query_plan,   \* self.__query_plan: index into plans, 0 when the attribute is unset
    log,          \* collaborator invocations, in order, of all execute calls
    calls,        \* number of execute calls started on the instance
    outcome,      \* how the last finished execute call ended
    before        \* query_plan as it was when the current execute call started

cvars == <<conditions, array_join, depth, pc, ret>>
pvars == <<stage, request, plans, query_plan, log, calls, outcome, before>>
vars == <<conditions, array_join, depth, pc, ret,
          stage, request, plans, query_plan, log, calls, outcome, before>>

----------------------------------------------------------------------------
(* Bounds of the model *)

\* integer literals are 1..MaxLit
MaxLit == 2
\* longest top-level list of structured sub-conditions
MaxTop == 3
\* longest OR-group
MaxGroup == 2
\* largest depth argument given to the outermost parse_conditions call
MaxDepth == 3
\* execute calls made on one pipeline instance
MaxCalls == 2
\* entity processors registered on the entity
NumEntityProcessors == 2
\* plan processors registered on the plan
NumPlanProcessors == 1

----------------------------------------------------------------------------
(* Python values: raw conditions *)

\* Python's None, wherever a string is optional (array_join, base_name, alias)
None == "None"

RNone == [kind |-> "none", s |-> "", n |-> 0, items |-> <<>>]
RStr(s) == [kind |-> "str", s |-> s, n |-> 0, items |-> <<>>]
RInt(n) == [kind |-> "int", s |-> "", n |-> n, items |-> <<>>]
RList(items) == [kind |-> "list", s |-> "", n |-> 0, items |-> items]
RTuple(items) == [kind |-> "tuple", s |-> "", n |-> 0, items |-> items]

\* bool(v): None, "", 0 and empty sequences are falsy
Truthy(v) ==
    CASE v.kind = "none" -> FALSE
      [] v.kind = "str" -> v.s # ""
      [] v.kind = "int" -> v.n # 0
      [] OTHER -> Len(v.items) > 0

\* isinstance(v, (list, tuple))
IsSequence(v) == v.kind \in {"list", "tuple"}

\* the characters of the strings the model uses that are longer than one
Chars(s) ==
    CASE s = "IN" -> <<"I", "N">>
      [] s = "!=" -> <<"!", "=">>
      [] s = "NOT IN" -> <<"N", "O", "T", " ", "I", "N">>
      [] s = "'q'" -> <<"'", "q", "'">>
      [] s = "" -> <<>>
      [] OTHER -> <<s>>

\* `for cond in v` succeeds on sequences and strings, and is a TypeError otherwise
Iterable(v) == v.kind \in {"list", "tuple", "str"}

\* the elements `for cond in v` yields
Iter(v) ==
    IF v.kind = "str"
    THEN [i \in 1..Len(Chars(v.s)) |-> RStr(Chars(v.s)[i])]
    ELSE v.items

----------------------------------------------------------------------------
(* Expression AST *)

NoneExpr == [kind |-> "None", alias |-> None, name |-> "", value |-> RNone, params |-> <<>>]
Column(name) ==
    [kind |-> "Column", alias |-> None, name |-> name, value |-> RNone, params |-> <<>>]
Literal(value) ==
    [kind |-> "Literal", alias |-> None, name |-> "", value |-> value, params |-> <<>>]
Argument(name) ==
    [kind |-> "Argument", alias |-> None, name |-> name, value |-> RNone, params |-> <<>>]
FunctionCall(name, params) ==
    [kind |-> "FunctionCall", alias |-> None, name |-> name, value |-> RNone, params |-> params]
Lambda(param, body) ==
    [kind |-> "Lambda", alias |-> None, name |-> param, value |-> RNone, params |-> <<body>>]

\* binary_condition(alias, function_name, lhs, rhs)
binary_condition(function_name, lhs, rhs) == FunctionCall(function_name, <<lhs, rhs>>)

----------------------------------------------------------------------------
(* Exceptions and outcomes *)

NoExc == [type |-> "", arg |-> RNone]
\* raise InvalidConditionException(str(conditions))
InvalidConditionException(v) == [type |-> "InvalidConditionException", arg |-> v]
AssertionError == [type |-> "AssertionError", arg |-> RNone]
TypeError(v) == [type |-> "TypeError", arg |-> v]

\* what a call left behind: the exception raised (NoExc when it returned), the
\* value returned, the parse_conditions calls made (depth and argument, in
\* order) and the leaf builder calls made (in order)
Outcome(exc, value, visited, built) ==
    [exc |-> exc, value |-> value, visited |-> visited, built |-> built]

NoOutcome == Outcome(NoExc, NoneExpr, <<>>, <<>>)

----------------------------------------------------------------------------
(* Collaborators of the condition compiler *)

\* schemas.CONDITION_OPERATORS, restricted to the operators the model uses
CONDITION_OPERATORS == {"=", "!=", "IN", "NOT IN"}

\* snuba.query.schema.POSITIVE_OPERATORS, restricted likewise
POSITIVE_OPERATORS == {"=", "IN"}

\* snuba.query.conditions.OPERATOR_TO_FUNCTION
OPERATOR_TO_FUNCTION(op) ==
    CASE op = "=" -> "equals"
      [] op = "!=" -> "notEquals"
      [] op = "IN" -> "in"
      [] op = "NOT IN" -> "notIn"

\* snuba.util.is_condition: a sequence of three whose middle element is an
\* operator and whose first element is a string or a sequence
is_condition(v) ==
    /\ IsSequence(v)
    /\ Len(v.items) = 3
    /\ v.items[2].kind = "str"
    /\ v.items[2].s \in CONDITION_OPERATORS
    /\ v.items[1].kind \in {"str", "list", "tuple"}

\* dataset.get_dataset_schemas().get_read_schema().get_columns(): the read
\* schema. "a" is scalar, "t" a flat Array column (no base name), "k" an Array
\* column nested under "n".
ColumnNames == {"a", "t", "k"}
columns(name) ==
    CASE name = "a" -> [type |-> "Scalar", base_name |-> None]
      [] name = "t" -> [type |-> "Array", base_name |-> None]
      [] name = "k" -> [type |-> "Array", base_name |-> "n"]

\* dataset.process_condition: resolves the raw leaf; this dataset aliases the
\* column "x" to "k" and leaves everything else as it is
process_condition(cond) ==
    LET lhs == cond.items[1] IN
    [lhs |-> IF lhs = RStr("x") THEN RStr("k") ELSE lhs,
     op |-> cond.items[2].s,
     lit |-> cond.items[3]]

\* snuba.util.is_function(val, 0): [name, [args...]]
is_function(val) ==
    /\ IsSequence(val)
    /\ Len(val.items) = 2
    /\ val.items[1].kind = "str"
    /\ IsSequence(val.items[2])

\* snuba.query.parser.functions.parse_function_to_expr, for column arguments
parse_function_to_expr(val) ==
    FunctionCall(val.items[1].s,
                 [i \in 1..Len(val.items[2].items) |-> Column(val.items[2].items[i].s)])

\* QUOTED_LITERAL_RE.match(val), on the strings the model uses
QuotedLiteral(s) == s \in {"'q'"}

\* val[1:-1] of a quoted literal
Unquote(s) == CASE s = "'q'" -> "q" [] OTHER -> s

----------------------------------------------------------------------------
(* The builder set of parse_conditions_to_expr *)

operand_builder(val) ==
    IF is_function(val) THEN parse_function_to_expr(val)
    ELSE IF QuotedLiteral(val.s) THEN Literal(RStr(Unquote(val.s)))
    ELSE Column(val.s)

RECURSIVE multi_expression_builder(_, _)
multi_expression_builder(expressions, function) ==
    IF Len(expressions) = 1 THEN expressions[1]
    ELSE binary_condition(function, expressions[1],
                          multi_expression_builder(Tail(expressions), function))

\* BooleanFunctions.AND is "and"
and_builder(expressions) ==
    IF expressions = <<>> THEN NoneExpr
    ELSE multi_expression_builder(expressions, "and")

\* BooleanFunctions.OR is "or"
or_builder(expressions) ==
    IF expressions = <<>> THEN NoneExpr
    ELSE multi_expression_builder(expressions, "or")

\* a builder either returns an expression or raises
Built(value) == [exc |-> NoExc, value |-> value]
Raised(exc) == [exc |-> exc, value |-> NoneExpr]

preprocess_literal(op, literal) ==
    IF IsSequence(literal)
    THEN IF op \in {"IN", "NOT IN"}
         THEN Built(FunctionCall("tuple",
                  [i \in 1..Len(literal.items) |-> Literal(literal.items[i])]))
         ELSE Raised(AssertionError)
    ELSE IF op \notin {"IN", "NOT IN"}
         THEN Built(Literal(literal))
         ELSE Raised(AssertionError)

unpack_array_condition_builder(lhs, op, literal) ==
    LET function_name == IF op \in POSITIVE_OPERATORS THEN "arrayExists" ELSE "arrayAll"
        rhs == preprocess_literal(op, literal)
    IN  IF rhs.exc # NoExc THEN rhs
        ELSE Built(FunctionCall(function_name,
                 <<Lambda("x",
                      FunctionCall("assumeNotNull",
                          <<FunctionCall(OPERATOR_TO_FUNCTION(op),
                                         <<Argument("x"), rhs.value>>)>>)),
                   lhs>>))

simple_condition_builder(lhs, op, literal) ==
    LET rhs == preprocess_literal(op, literal)
    IN  IF rhs.exc # NoExc THEN rhs
        ELSE Built(binary_condition(OPERATOR_TO_FUNCTION(op), lhs, rhs.value))

----------------------------------------------------------------------------
(* parse_conditions *)

\* a variant of Branch that tests `depth == 1` before is_condition
BranchGroupBeforeLeaf(conds, d) ==
    IF ~Truthy(conds) THEN "empty"
    ELSE IF d = 0 THEN "top"
    ELSE IF d = 1 THEN "group"
    ELSE IF is_condition(conds) THEN "leaf"
    ELSE "invalid"

\* a variant of Branch whose last arm returns None instead of raising
BranchInvalidAsEmpty(conds, d) ==
    IF ~Truthy(conds) THEN "empty"
    ELSE IF d = 0 THEN "top"
    ELSE IF is_condition(conds) THEN "leaf"
    ELSE IF d = 1 THEN "group"
    ELSE "empty"

\* which arm of parse_conditions' if-chain a call takes
Branch(conds, d) ==
    IF ~Truthy(conds) THEN "empty"
    ELSE IF d = 0 THEN "top"
    ELSE IF is_condition(conds) THEN "leaf"
    ELSE IF d = 1 THEN "group"
    ELSE "invalid"

\* sorted(items), for integer items
RECURSIVE Insert(_, _)
Insert(x, sorted) ==
    IF sorted = <<>> THEN <<x>>
    ELSE IF x.n < Head(sorted).n THEN <<x>> \o sorted
    ELSE <<Head(sorted)>> \o Insert(x, Tail(sorted))

RECURSIVE Sorted(_)
Sorted(items) ==
    IF items = <<>> THEN <<>>
    ELSE Insert(items[Len(items)], Sorted(SubSeq(items, 1, Len(items) - 1)))

\* the literal after `if op in ("IN", "NOT IN") and isinstance(lit, tuple)`
SortedLiteral(op, lit) ==
    IF op \in {"IN", "NOT IN"} /\ lit.kind = "tuple"
    THEN RTuple(Sorted(lit.items))
    ELSE lit

\* a variant of UnpacksArray that does not look at the array join
UnpacksArrayIgnoringJoin(lhs, lit, aj) ==
    /\ lhs.kind = "str"
    /\ lhs.s \in ColumnNames
    /\ columns(lhs.s).type = "Array"
    /\ ~IsSequence(lit)

\* the condition under which the leaf goes to unpack_array_condition_builder
UnpacksArray(lhs, lit, aj) ==
    /\ lhs.kind = "str"
    /\ lhs.s \in ColumnNames
    /\ columns(lhs.s).type = "Array"
    /\ columns(lhs.s).base_name # aj
    /\ ~IsSequence(lit)

\* the leaf arm: resolve, sort the IN literal, pick and call one builder
ParseLeaf(conds, aj, d) ==
    LET c == process_condition(conds)
        lit == SortedLiteral(c.op, c.lit)
        unpack == UnpacksArray(c.lhs, lit, aj)
        operand == operand_builder(c.lhs)
        b == IF unpack
             THEN unpack_array_condition_builder(operand, c.op, lit)
             ELSE simple_condition_builder(operand, c.op, lit)
    IN  Outcome(b.exc, b.value,
                <<[depth |-> d, value |-> conds]>>,
                <<[builder |-> IF unpack THEN "unpack_array_condition_builder"
                                         ELSE "simple_condition_builder",
                   lhs |-> operand, op |-> c.op, lit |-> lit]>>)

\* a variant of OrderedDictKeys that keeps each distinct value at the place of
\* its last occurrence
RECURSIVE KeysAtLastOccurrence(_)
KeysAtLastOccurrence(values) ==
    IF values = <<>> THEN <<>>
    ELSE IF \E i \in 2..Len(values) : values[i] = Head(values)
    THEN KeysAtLastOccurrence(Tail(values))
    ELSE <<Head(values)>> \o KeysAtLastOccurrence(Tail(values))

\* the keys of OrderedDict((v, None) for v in values): each distinct value once,
\* at the place of its first occurrence
RECURSIVE OrderedDictKeys(_)
OrderedDictKeys(values) ==
    IF values = <<>> THEN <<>>
    ELSE LET init == OrderedDictKeys(SubSeq(values, 1, Len(values) - 1))
             last == values[Len(values)]
         IN  IF \E i \in 1..Len(init) : init[i] = last THEN init
             ELSE Append(init, last)

\* [s for s in values if s]
RECURSIVE Truthies(_)
Truthies(values) ==
    IF values = <<>> THEN <<>>
    ELSE IF Head(values) = NoneExpr THEN Truthies(Tail(values))
    ELSE <<Head(values)>> \o Truthies(Tail(values))

\* the top-level arm's result from the sub-results
TopResult(values) == and_builder(Truthies(OrderedDictKeys(values)))

\* a variant of GroupResult that removes duplicates as the top level does
GroupResultDeduped(values) == or_builder(Truthies(OrderedDictKeys(values)))

\* the OR-group arm's result from the sub-results
GroupResult(values) == or_builder(Truthies(values))

RECURSIVE ParseConditions(_, _, _)
RECURSIVE ParseEach(_, _, _)

\* the recursive calls on the elements of a sequence, in order, up to the first
\* one that raises
ParseEach(items, aj, d) ==
    IF items = <<>> THEN [exc |-> NoExc, values |-> <<>>, visited |-> <<>>, built |-> <<>>]
    ELSE LET h == ParseConditions(Head(items), aj, d) IN
         IF h.exc # NoExc
         THEN [exc |-> h.exc, values |-> <<>>, visited |-> h.visited, built |-> h.built]
         ELSE LET t == ParseEach(Tail(items), aj, d) IN
              [exc |-> t.exc,
               values |-> IF t.exc # NoExc THEN <<>> ELSE <<h.value>> \o t.values,
               visited |-> h.visited \o t.visited,
               built |-> h.built \o t.built]

ParseConditions(conds, aj, d) ==
    LET me == <<[depth |-> d, value |-> conds]>>
        arm == Branch(conds, d)
    IN  CASE arm = "empty" -> Outcome(NoExc, NoneExpr, me, <<>>)
          [] arm = "leaf" -> ParseLeaf(conds, aj, d)
          [] arm = "invalid" -> Outcome(InvalidConditionException(conds), NoneExpr, me, <<>>)
          [] OTHER ->
                IF ~Iterable(conds)
                THEN Outcome(TypeError(conds), NoneExpr, me, <<>>)
                ELSE LET sub == ParseEach(Iter(conds), aj, d + 1) IN
                     IF sub.exc # NoExc
                     THEN Outcome(sub.exc, NoneExpr, me \o sub.visited, sub.built)
                     ELSE Outcome(NoExc,
                                  IF arm = "top" THEN TopResult(sub.values)
                                                 ELSE GroupResult(sub.values),
                                  me \o sub.visited, sub.built)

----------------------------------------------------------------------------
(* Inputs of the condition compiler *)

Lits == 1..MaxLit

\* all sequences over S of length at most n
SeqsUpTo(S, n) == UNION {[1..k -> S] : k \in 0..n}

\* a raw (lhs, op, rhs) condition
Leaf(lhs, op, rhs) == RTuple(<<lhs, RStr(op), rhs>>)

\* column names in and out of the schema, an aliased column, a quoted literal
\* and a function call f(k)
LhsValues ==
    {RStr("a"), RStr("t"), RStr("k"), RStr("x"), RStr("z"), RStr("'q'"),
     RList(<<RStr("f"), RList(<<RStr("k")>>)>>)}

Collections ==
    {RTuple(<<RInt(i), RInt(j)>>) : i, j \in Lits}
        \cup {RList(<<RInt(i), RInt(j)>>) : i, j \in Lits}

RhsValues == {RInt(i) : i \in Lits} \cup Collections

AllLeaves == {Leaf(l, op, r) : l \in LhsValues, op \in CONDITION_OPERATORS, r \in RhsValues}

\* one leaf, given directly at every depth, and wrapped once and twice at depth 0
LeafInputs ==
    {<<l, d>> : l \in AllLeaves, d \in 0..MaxDepth}
        \cup {<<RList(<<l>>), 0>> : l \in AllLeaves}
        \cup {<<RList(<<RList(<<l>>)>>), 0>> : l \in AllLeaves}

\* OR-groups of equality leaves, empty sequences and a list nested too deep
GroupItems ==
    {Leaf(RStr("a"), "=", RInt(i)) : i \in Lits}
        \cup {RList(<<>>), RList(<<Leaf(RStr("a"), "=", RInt(1))>>)}

Groups == {RList(s) : s \in SeqsUpTo(GroupItems, MaxGroup)}

GroupInputs ==
    {<<g, d>> : g \in Groups, d \in 0..MaxDepth}
        \cup {<<RList(<<g>>), 0>> : g \in Groups}

\* top-level lists of leaves and groups, with duplicates
TopElems ==
    {Leaf(RStr("a"), "=", RInt(i)) : i \in Lits}
        \cup {Leaf(RStr("a"), "IN", RTuple(<<RInt(1), RInt(2)>>)),
              Leaf(RStr("a"), "IN", RTuple(<<RInt(2), RInt(1)>>)),
              RList(<<>>),
              RList(<<Leaf(RStr("a"), "=", RInt(1))>>),
              RList(<<Leaf(RStr("a"), "=", RInt(1)), Leaf(RStr("a"), "=", RInt(2))>>)}

TopInputs == {<<RList(s), 0>> : s \in SeqsUpTo(TopElems, MaxTop)}

\* two IN / NOT IN leaves side by side at top level
InLeaves ==
    {Leaf(l, op, r) : l \in {RStr("a"), RStr("k")}, op \in {"IN", "NOT IN"}, r \in Collections}

PairInputs == {<<RList(<<l1, l2>>), 0>> : l1, l2 \in InLeaves}

Inputs ==
    LeafInputs \cup GroupInputs \cup TopInputs \cup PairInputs
        \cup {<<RNone, d>> : d \in 0..MaxDepth}

----------------------------------------------------------------------------
(* The condition compiler as a state machine *)

InitCompiler ==
    /\ \E inp \in Inputs : conditions = inp[1] /\ depth = inp[2]
    /\ array_join \in {None, "n"}
    /\ pc = "ready"
    /\ ret = NoOutcome

IdleCompiler ==
    /\ conditions = RNone
    /\ depth = 0
    /\ array_join = None
    /\ pc = "ready"
    /\ ret = NoOutcome

\* one call parse_conditions(..., conditions, array_join, depth)
parse_conditions ==
    /\ pc = "ready"
    /\ ret' = ParseConditions(conditions, array_join, depth)
    /\ pc' = "done"
    /\ UNCHANGED <<conditions, array_join, depth>>
    /\ UNCHANGED pvars

----------------------------------------------------------------------------
(* SimplePipeline *)

\* the Query Results an execution strategy may produce
Results == {"r1", "r2"}

\* what a processor leaves on the object it mutates in place
Mark(by, i) == [by |-> by, i |-> i]

\* one collaborator invocation: the execute call it belongs to, the collaborator,
\* its place in its processor list (0 when it is not a processor), the request
\* or query it was given and the result it returned ("" when none)
Entry(call, what, i, arg, result) ==
    [call |-> call, what |-> what, i |-> i, arg |-> arg, result |-> result]

NoResult == [kind |-> "none", value |-> "", at |-> ""]
Returned(r) == [kind |-> "returned", value |-> r, at |-> "strategy"]
RaisedAt(at) == [kind |-> "raised", value |-> "", at |-> at]

At(at, i) == [at |-> at, i |-> i]

\* a variant of NextStage that goes from build_plan straight to the strategy
NextStageSkippingPlanProcessors(at) ==
    CASE at = "entity" -> "build"
      [] at = "build" -> "strategy"
      [] at = "plan" -> "strategy"
      [] at = "strategy" -> "idle"

\* the statement that follows each statement of execute
NextStage(at) ==
    CASE at = "entity" -> "build"
      [] at = "build" -> "plan"
      [] at = "plan" -> "strategy"
      [] at = "strategy" -> "idle"

\* a variant of AfterFailure that runs the failed stage again
AfterFailureRetrying(at) == at

\* execute has no handler: an exception raised by a stage leaves the call
AfterFailure(at) == "idle"

\* the state after SimplePipeline.__init__: __query_plan is not set
InitPipeline ==
    /\ stage = At("idle", 1)
    /\ request = <<>>
    /\ plans = <<>>
    /\ query_plan = 0
    /\ log = <<>>
    /\ calls = 0
    /\ outcome = NoResult
    /\ before = 0

\* a variant of execute that resets __query_plan on entry
ExecuteResettingPlan ==
    /\ stage.at = "idle"
    /\ calls < MaxCalls
    /\ calls' = calls + 1
    /\ before' = query_plan
    /\ outcome' = NoResult
    /\ stage' = At("entity", 1)
    /\ query_plan' = 0
    /\ UNCHANGED <<request, plans, log>>
    /\ UNCHANGED cvars

\* the caller enters execute
execute ==
    /\ stage.at = "idle"
    /\ calls < MaxCalls
    /\ calls' = calls + 1
    /\ before' = query_plan
    /\ outcome' = NoResult
    /\ stage' = At("entity", 1)
    /\ UNCHANGED <<request, plans, query_plan, log>>
    /\ UNCHANGED cvars

\* _execute_entity_processors(self.__request): the next entity processor runs
\* on the request, mutating it in place, or fails (having changed it or not)
entity_processor ==
    /\ stage.at = "entity"
    /\ log' = Append(log, Entry(calls, "entity_processor", stage.i, request, ""))
    /\ \/ /\ request' = Append(request, Mark("entity", stage.i))
          /\ stage' = IF stage.i < NumEntityProcessors
                      THEN At("entity", stage.i + 1)
                      ELSE At(NextStage("entity"), 1)
          /\ UNCHANGED outcome
       \/ /\ \E partial \in BOOLEAN :
                request' = IF partial THEN Append(request, Mark("entity-failed", stage.i))
                           ELSE request
          /\ stage' = At(AfterFailure("entity"), 1)
          /\ outcome' = IF AfterFailure("entity") = "idle" THEN RaisedAt("entity") ELSE outcome
    /\ UNCHANGED <<plans, query_plan, calls, before>>
    /\ UNCHANGED cvars

\* self.__query_plan = self.__query_plan_builder.build_plan(self.__request)
build_plan ==
    /\ stage.at = "build"
    /\ log' = Append(log, Entry(calls, "build_plan", 0, request, ""))
    /\ \/ /\ plans' = Append(plans, [query |-> request])
          /\ query_plan' = Len(plans) + 1
          /\ stage' = At(NextStage("build"), 1)
          /\ UNCHANGED outcome
       \/ /\ UNCHANGED <<plans, query_plan>>
          /\ stage' = At(AfterFailure("build"), 1)
          /\ outcome' = IF AfterFailure("build") = "idle" THEN RaisedAt("build") ELSE outcome
    /\ UNCHANGED <<request, calls, before>>
    /\ UNCHANGED cvars

\* _execute_query_plan_processors(self.__query_plan, self.__request): the next
\* plan processor runs on the plan's query, mutating it in place, or fails
plan_processor ==
    /\ stage.at = "plan"
    /\ log' = Append(log, Entry(calls, "plan_processor", stage.i, plans[query_plan].query, ""))
    /\ \/ /\ plans' = [plans EXCEPT ![query_plan].query = Append(@, Mark("plan", stage.i))]
          /\ stage' = IF stage.i < NumPlanProcessors
                      THEN At("plan", stage.i + 1)
                      ELSE At(NextStage("plan"), 1)
          /\ UNCHANGED outcome
       \/ /\ \E partial \in BOOLEAN :
                plans' = IF partial
                         THEN [plans EXCEPT ![query_plan].query =
                                   Append(@, Mark("plan-failed", stage.i))]
                         ELSE plans
          /\ stage' = At(AfterFailure("plan"), 1)
          /\ outcome' = IF AfterFailure("plan") = "idle" THEN RaisedAt("plan") ELSE outcome
    /\ UNCHANGED <<request, query_plan, calls, before>>
    /\ UNCHANGED cvars

\* a variant of execution_strategy that hands the strategy the request's query
\* instead of the plan's
ExecutionStrategyOnRequestQuery ==
    /\ stage.at = "strategy"
    /\ \/ \E r \in Results :
            /\ log' = Append(log, Entry(calls, "execute", 0, request, r))
            /\ stage' = At(NextStage("strategy"), 1)
            /\ outcome' = IF NextStage("strategy") = "idle" THEN Returned(r) ELSE outcome
       \/ /\ log' = Append(log, Entry(calls, "execute", 0, request, ""))
          /\ stage' = At(AfterFailure("strategy"), 1)
          /\ outcome' = IF AfterFailure("strategy") = "idle" THEN RaisedAt("strategy") ELSE outcome
    /\ UNCHANGED <<request, plans, query_plan, calls, before>>
    /\ UNCHANGED cvars

\* return self.__query_plan.execution_strategy.execute(
\*     self.__query_plan.query, self.__request.settings, self.__runner)
execution_strategy ==
    /\ stage.at = "strategy"
    /\ \/ \E r \in Results :
            /\ log' = Append(log, Entry(calls, "execute", 0, plans[query_plan].query, r))
            /\ stage' = At(NextStage("strategy"), 1)
            /\ outcome' = IF NextStage("strategy") = "idle" THEN Returned(r) ELSE outcome
       \/ /\ log' = Append(log, Entry(calls, "execute", 0, plans[query_plan].query, ""))
          /\ stage' = At(AfterFailure("strategy"), 1)
          /\ outcome' = IF AfterFailure("strategy") = "idle" THEN RaisedAt("strategy") ELSE outcome
    /\ UNCHANGED <<request, plans, query_plan, calls, before>>
    /\ UNCHANGED cvars

\* the query_plan property: the attribute, or AttributeError while it is unset
QueryPlanProperty ==
    IF query_plan = 0 THEN [exc |-> "AttributeError", plan |-> [query |-> <<>>]]
    ELSE [exc |-> "", plan |-> plans[query_plan]]

----------------------------------------------------------------------------
(* Specifications *)

Init == InitCompiler /\ InitPipeline

Next == parse_conditions

Spec == Init /\ [][Next]_vars

PipelineInit == IdleCompiler /\ InitPipeline

PipelineNext ==
    \/ execute
    \/ entity_processor
    \/ build_plan
    \/ plan_processor
    \/ execution_strategy

PipelineSpec == PipelineInit /\ [][PipelineNext]_vars

----------------------------------------------------------------------------
(* Properties of the condition compiler (specification Spec) *)

Done == pc = "done"

\* the operands of an n-ary right-nested fn(e1, fn(e2, ... en)); <<>> when e
\* is not nested that way
RECURSIVE Operands(_, _, _)
Operands(e, fn, n) ==
    IF n = 1 THEN <<e>>
    ELSE IF e.kind = "FunctionCall" /\ e.name = fn /\ Len(e.params) = 2
    THEN LET rest == Operands(e.params[2], fn, n - 1) IN
         IF rest = <<>> THEN <<>> ELSE <<e.params[1]>> \o rest
    ELSE <<>>

\* the elements of s at the positions in idx, in increasing order of position
AtPositions(s, idx) ==
    [k \in 1..Cardinality(idx) |->
        s[CHOOSE i \in idx : Cardinality({j \in idx : j <= i}) = k]]

\* what each element of a sequence compiles to, one level down
SubResults(conds, d) ==
    [i \in 1..Len(Iter(conds)) |-> ParseConditions(Iter(conds)[i], array_join, d + 1).value]

\* positions of the sub-results that are not none
NonNone(subs) == {i \in 1..Len(subs) : subs[i] # NoneExpr}

\* positions of the sub-results that are not none and occur there first
FirstNonNone(subs) == {i \in NonNone(subs) : \A j \in 1..(i - 1) : subs[j] # subs[i]}

\* the calls of a finished parse that took the leaf arm
LeafVisits == {i \in 1..Len(ret.visited) :
                  /\ ret.visited[i].depth >= 1
                  /\ Truthy(ret.visited[i].value)
                  /\ is_condition(ret.visited[i].value)}

\* C4: at depth 0 the sub-results that are none are dropped, duplicates are
\* removed keeping each distinct sub-result at its first position, and what
\* remains is AND-combined in that order; none when nothing remains.
C4_TopLevelDedup ==
    (Done /\ depth = 0 /\ Truthy(conditions) /\ ret.exc = NoExc) =>
        LET subs == SubResults(conditions, 0)
            kept == AtPositions(subs, FirstNonNone(subs))
        IN  IF kept = <<>> THEN ret.value = NoneExpr
            ELSE Operands(ret.value, "and", Len(kept)) = kept

\* C4 witness: [x, y, x] with x # y compiled to the two-element AND(x, y)
C4_Witness ==
    /\ Done /\ depth = 0 /\ ret.exc = NoExc
    /\ Len(conditions.items) = 3
    /\ LET subs == SubResults(conditions, 0) IN
           /\ subs[1] = subs[3] /\ subs[1] # subs[2]
           /\ NoneExpr \notin {subs[1], subs[2]}
           /\ ret.value = binary_condition("and", subs[1], subs[2])

\* two leaves with the same left-hand side and the same IN / NOT IN operator
\* whose right-hand sides are collections that are permutations of each other
PermutedInLeaves(l1, l2) ==
    /\ is_condition(l1) /\ is_condition(l2)
    /\ l1.items[1] = l2.items[1]
    /\ l1.items[2] = l2.items[2]
    /\ l1.items[2].s \in {"IN", "NOT IN"}
    /\ IsSequence(l1.items[3]) /\ IsSequence(l2.items[3])
    /\ Len(l1.items[3].items) = Len(l2.items[3].items)
    /\ \A v \in Lits :
           Cardinality({i \in 1..Len(l1.items[3].items) : l1.items[3].items[i] = RInt(v)})
               = Cardinality({i \in 1..Len(l2.items[3].items) : l2.items[3].items[i] = RInt(v)})

\* C5: two IN (or NOT IN) leaves on the same left-hand side whose right-hand
\* collections are permutations of each other compile to the same expression,
\* and listed together at top level they are deduplicated to that one.
C5_PermutedInListsDedup ==
    (/\ Done /\ depth = 0
     /\ conditions.kind = "list" /\ Len(conditions.items) = 2
     /\ PermutedInLeaves(conditions.items[1], conditions.items[2])) =>
        LET subs == SubResults(conditions, 0) IN
            /\ ret.exc = NoExc
            /\ subs[1] = subs[2]
            /\ ret.value = subs[1]

\* a call on c at depth d took the leaf arm: nothing below it was visited and
\* one builder was called
LeafPath(c, d) ==
    /\ ret.visited = <<[depth |-> d, value |-> c]>>
    /\ Len(ret.built) = 1

\* C6 (as stated): a 3-tuple that looks like (lhs, op, rhs) is compiled through
\* the leaf path at every depth >= 0, also as the depth-0 input.
C6_LeafAtAnyDepth ==
    (Done /\ is_condition(conditions)) => LeafPath(conditions, depth)

\* C6 (amended): a 3-tuple that looks like (lhs, op, rhs) is compiled through
\* the leaf path wherever it is met at depth >= 1 (one builder call, no
\* descent into its elements); given as the depth-0 input it is iterated as a
\* sequence of sub-conditions and no builder is called for it.
C6_LeafAtDepthOneOrMore ==
    Done =>
        /\ \A i \in LeafVisits :
               i < Len(ret.visited) => ret.visited[i + 1].depth <= ret.visited[i].depth
        /\ Len(ret.built) = Cardinality(LeafVisits)
        /\ (is_condition(conditions) /\ depth >= 1) => LeafPath(conditions, depth)
        /\ (is_condition(conditions) /\ depth = 0) =>
               /\ Len(ret.visited) > 1
               /\ ret.visited[2] = [depth |-> 1, value |-> conditions.items[1]]
               /\ ret.built = <<>>

\* C6 witness: a leaf given at depth 2 was compiled by one builder call
C6_Witness ==
    /\ Done /\ depth = 2 /\ is_condition(conditions)
    /\ ret.exc = NoExc /\ ret.value # NoneExpr
    /\ LeafPath(conditions, depth)

\* C7 (as stated): every value met at depth > 1 that is not a leaf 3-tuple,
\* empty and falsy values included, makes the call fail with InvalidCondition
\* carrying that value.
C7_NonLeafBelowDepthOneFails ==
    Done =>
        \A i \in 1..Len(ret.visited) :
            (ret.visited[i].depth > 1 /\ ~is_condition(ret.visited[i].value)) =>
                /\ ret.exc = InvalidConditionException(ret.visited[i].value)
                /\ ret.value = NoneExpr

\* C7 (amended): every non-empty (truthy) value met at depth > 1 that is not a
\* leaf 3-tuple makes the call fail with InvalidCondition carrying that value,
\* at once and with no partial expression returned; an empty or falsy value met
\* at depth > 1 compiles to none instead, and InvalidCondition is raised in no
\* other case.
C7_TruthyNonLeafBelowDepthOneFails ==
    Done =>
        LET bad == {i \in 1..Len(ret.visited) :
                       /\ ret.visited[i].depth > 1
                       /\ Truthy(ret.visited[i].value)
                       /\ ~is_condition(ret.visited[i].value)}
        IN  /\ \A i \in bad :
                   /\ ret.exc = InvalidConditionException(ret.visited[i].value)
                   /\ ret.value = NoneExpr
                   /\ i = Len(ret.visited)
            /\ (bad = {}) => ret.exc.type # "InvalidConditionException"

\* C7 witness: a 3-level-deep list around a leaf failed with InvalidCondition
\* carrying the innermost list
C7_Witness ==
    /\ Done /\ depth = 0
    /\ \E l \in AllLeaves :
           /\ conditions = RList(<<RList(<<RList(<<l>>)>>)>>)
           /\ ret.exc = InvalidConditionException(RList(<<l>>))
           /\ ret.value = NoneExpr

IsGroup(c) == Truthy(c) /\ IsSequence(c) /\ ~is_condition(c)

\* C9: within one OR-group the compiled leaves are OR-combined in input order
\* with duplicates kept: n leaves that are not none give an OR over exactly n
\* operands.
C9_NoDedupInGroup ==
    (Done /\ depth = 1 /\ IsGroup(conditions) /\ ret.exc = NoExc) =>
        LET subs == SubResults(conditions, 1)
            kept == AtPositions(subs, NonNone(subs))
        IN  IF kept = <<>> THEN ret.value = NoneExpr
            ELSE Operands(ret.value, "or", Len(kept)) = kept

\* C9 witness: a group of the same leaf twice compiled to an OR of both
C9_Witness ==
    /\ Done /\ depth = 1 /\ IsGroup(conditions) /\ ret.exc = NoExc
    /\ Len(conditions.items) = 2
    /\ conditions.items[1] = conditions.items[2]
    /\ is_condition(conditions.items[1])
    /\ LET subs == SubResults(conditions, 1) IN
           ret.value = binary_condition("or", subs[1], subs[2])

----------------------------------------------------------------------------
(* Properties of the pipeline (specification PipelineSpec) *)

\* the collaborator invocations of execute call c, in order
CallLog(c) ==
    LET OfCall(e) == e.call = c IN SelectSeq(log, OfCall)

\* the invocations one execute call makes when nothing fails, in order
ExpectedOrder ==
    [k \in 1..(NumEntityProcessors + NumPlanProcessors + 2) |->
        IF k <= NumEntityProcessors THEN <<"entity_processor", k>>
        ELSE IF k = NumEntityProcessors + 1 THEN <<"build_plan", 0>>
        ELSE IF k <= NumEntityProcessors + 1 + NumPlanProcessors
        THEN <<"plan_processor", k - NumEntityProcessors - 1>>
        ELSE <<"execute", 0>>]

\* the collaborator a stage of execute invokes
StageOf(what) ==
    CASE what = "entity_processor" -> "entity"
      [] what = "build_plan" -> "build"
      [] what = "plan_processor" -> "plan"
      [] what = "execute" -> "strategy"

Finished == stage.at = "idle" /\ calls > 0

\* C1: every execute call invokes P1, P2, build_plan, P3, the execution
\* strategy in exactly that order, each at most once; a call that returned
\* invoked them all; a call in which a stage failed invoked nothing after the
\* failed stage and returned no Query Result.
C1_StageOrder ==
    /\ \A c \in 1..calls :
           LET l == CallLog(c) IN
               /\ Len(l) <= Len(ExpectedOrder)
               /\ \A k \in 1..Len(l) : <<l[k].what, l[k].i>> = ExpectedOrder[k]
    /\ Finished =>
           LET l == CallLog(calls) IN
               /\ outcome.kind \in {"returned", "raised"}
               /\ outcome.kind = "returned" => Len(l) = Len(ExpectedOrder)
               /\ outcome.kind = "raised" =>
                      /\ Len(l) >= 1
                      /\ StageOf(l[Len(l)].what) = outcome.at
                      /\ outcome.value \notin Results

\* C1 witness: P1 failed and nothing else was invoked in that call
C1_Witness ==
    /\ Finished /\ outcome = RaisedAt("entity")
    /\ Len(CallLog(calls)) = 1
    /\ CallLog(calls)[1].what = "entity_processor" /\ CallLog(calls)[1].i = 1

\* C2: in every execute call that reaches PlanBuilt, build_plan is invoked
\* exactly once, with the request as the entity processors left it; after a
\* failure of build_plan, a plan processor or the strategy no stage of that call
\* is invoked again.
C2_OnePlanNoRetry ==
    \A c \in 1..calls :
        LET l == CallLog(c)
            builds == {k \in 1..Len(l) : l[k].what = "build_plan"}
            later == {k \in 1..Len(l) : l[k].what \in {"plan_processor", "execute"}}
        IN  /\ Cardinality(builds) <= 1
            /\ (later # {} \/ (c = calls /\ stage.at \in {"plan", "strategy"})) =>
                   Cardinality(builds) = 1
            /\ \A k \in builds :
                   /\ k > 1
                   /\ l[k - 1].what = "entity_processor"
                   /\ l[k].arg = Append(l[k - 1].arg, Mark("entity", l[k - 1].i))
                   /\ \A j \in later : j > k
            /\ \A j, k \in 1..Len(l) :
                   (l[j].what = l[k].what /\ l[j].i = l[k].i) => j = k

\* C2 witness: the strategy failed in a call that built its one plan
C2_Witness ==
    /\ Finished /\ outcome = RaisedAt("strategy")
    /\ Cardinality({k \in 1..Len(CallLog(calls)) : CallLog(calls)[k].what = "build_plan"}) = 1

\* C3: after a successful execute the query_plan property is the plan whose
\* query the strategy was given, with the plan processors' changes in it, and
\* the value returned is the strategy's result.
C3_PlanExposure ==
    (Finished /\ outcome.kind = "returned") =>
        LET e == log[Len(log)]
            q == QueryPlanProperty.plan.query
        IN  /\ QueryPlanProperty.exc = ""
            /\ query_plan = Len(plans)
            /\ e.what = "execute" /\ e.call = calls
            /\ q = e.arg
            /\ Len(q) >= NumPlanProcessors
            /\ \A j \in 1..NumPlanProcessors :
                   q[Len(q) - NumPlanProcessors + j] = Mark("plan", j)
            /\ outcome.value = e.result
            /\ outcome.value \in Results

\* C3 witness: a second execute on the same instance succeeded
C3_Witness ==
    /\ Finished /\ outcome.kind = "returned" /\ calls = 2
    /\ query_plan = Len(plans)
    /\ plans[query_plan].query = log[Len(log)].arg

\* C10: query_plan is written only at the PlanBuilt step. While the entity
\* processors and build_plan run, and when one of them fails, it is as it was
\* before the call (unset and unreadable, or the earlier call's plan); from
\* then on, also when a plan processor or the strategy fails, it is the plan
\* this call built.
C10_PlanWrittenAtBuild ==
    LET early == \/ stage.at \in {"entity", "build"}
                 \/ Finished /\ outcome.kind = "raised" /\ outcome.at \in {"entity", "build"}
        late == \/ stage.at \in {"plan", "strategy"}
                \/ Finished /\ outcome.kind = "raised" /\ outcome.at \in {"plan", "strategy"}
    IN  /\ early =>
               /\ query_plan = before
               /\ before = 0 => QueryPlanProperty.exc = "AttributeError"
               /\ before # 0 =>
                      /\ QueryPlanProperty.exc = ""
                      /\ QueryPlanProperty.plan = plans[before]
        /\ late =>
               /\ query_plan # before
               /\ query_plan = Len(plans)
               /\ QueryPlanProperty.exc = ""
               /\ \E k \in 1..Len(CallLog(calls)) :
                      /\ CallLog(calls)[k].what = "build_plan"
                      /\ SubSeq(QueryPlanProperty.plan.query, 1, Len(CallLog(calls)[k].arg))
                             = CallLog(calls)[k].arg

\* C10 witness: an entity processor failed in the second call and query_plan
\* still is the first call's plan
C10_Witness ==
    /\ Finished /\ calls = 2 /\ outcome = RaisedAt("entity")
    /\ before # 0 /\ query_plan = before
    /\ QueryPlanProperty.plan = plans[before]

====
